---- MODULE Spec2Model ----
(***************************************************************************)
(* Tournament lifecycle engine of peerplays                                *)
(* (libraries/chain/tournament_object.cpp): the boost::msm state machine   *)
(* of a tournament_object, its register_player action, the entry actions   *)
(* of awaiting_start, in_progress and registration_period_expired, and the *)
(* bracket builder used when the tournament starts; the scheduler          *)
(* check_for_new_matches_to_start; the variant conversions of a            *)
(* tournament_object; the account-impact visitor and                       *)
(* database::notify_changed_objects.                                       *)
(***************************************************************************)
EXTENDS Integers, Sequences, FiniteSets, TLC

\* ------------------------------------------------------------------ bounds
\* largest options.number_of_players of a modelled tournament
MaxPlayers == 4
\* account ids are 0..MaxAccount
MaxAccount == 3
\* accounts 0..MaxPayer act as payers
MaxPayer == 1
\* head_block_time ranges over 0..MaxTime
MaxTime == 3
\* balance every account holds before the tournament is created
InitialBalance == 25
\* dynamic_global_properties.random ranges over 0..MaxSeed
MaxSeed == 7
\* largest number_of_players for which the bracket builder alone is checked
MaxBracketPlayers == 17
\* the operations handed to the impact resolver name accounts
\* 0..MaxImpactAccount
MaxImpactAccount == 2
\* largest number_of_players of a tournament whose matches are played
MaxSchedulerPlayers == 8
\* the objects of the database of notify_changed_objects have the ids
\* 0..MaxObject
MaxObject == 1
\* the accounts these objects belong to are 0..MaxIssuer
MaxIssuer == 1

\* ---------------------------------------------------------- program values
\* account_id_type(): the default-constructed account id, instance 0
DefaultAccount == 0
\* width of uint32_t in reverse_bits
WordBits == 32

Accounts == 0..MaxAccount
Payers == 0..MaxPayer
BuyIns == {0, 10}
\* an absent optional<time_point_sec> / optional<uint32_t>
NoTime == -1

\* enum tournament_state, in the order of the state machine's state ids
tournament_state ==
  << "accepting_registrations", "awaiting_start", "in_progress",
     "registration_period_expired", "concluded" >>

States == { tournament_state[i] : i \in 1..Len(tournament_state) }

VARIABLES
  state,                 \* my->state_machine.current_state()[0]
  options,               \* tournament_object::options
  start_time,            \* tournament_object::start_time
  prize_pool,            \* tournament_object::prize_pool
  registered_players,    \* tournament_object::registered_players
  details_players,       \* tournament_details_object::registered_players
  payers,                \* tournament_details_object::payers
  matches,               \* tournament_details_object::matches, as match objects
  balance,               \* the host ledger, in the buy-in asset
  now,                   \* database::head_block_time()
  bracket,               \* the pairing loop of in_progress::on_entry, run
                         \* on its own: num_players, player_num, paired
  impact,                \* the impact resolver: the running set before an
                         \* operation, the operation, the set after it
  notify,                \* the database of notify_changed_objects: undo
                         \* journal, objects, signals, what was dispatched
  copy                   \* a second tournament_object, made from the first
                         \* by the copy constructor or by operator=

vars == << state, options, start_time, prize_pool, registered_players,
           details_players, payers, matches, balance, now, bracket, impact,
           notify, copy >>

\* the tournament, its details object, the ledger and the clock
tournament_vars ==
  << state, options, start_time, prize_pool, registered_players,
     details_players, payers, matches, balance, now >>

\* what the specifications of the tournament leave alone
other_vars == << bracket, impact, notify, copy >>

\* ------------------------------------------------------------- arithmetic
RECURSIVE Pow(_, _)
Pow(b, e) == IF e = 0 THEN 1 ELSE b * Pow(b, e - 1)

\* boost::multiprecision::detail::find_msb: index of the highest set bit, n > 0
RECURSIVE find_msb(_)
find_msb(n) == IF n <= 1 THEN 0 ELSE 1 + find_msb(n \div 2)

\* a uint32_t as its bits, bit 0 the least significant
Bits == 0..(WordBits - 1)

\* (values of the model stay below 2^30)
to_bits(n) == [ i \in Bits |-> IF i > 30 THEN 0 ELSE (n \div Pow(2, i)) % 2 ]

RECURSIVE bits_value(_, _)
bits_value(v, i) ==
  IF i = WordBits THEN 0
  ELSE (IF v[i] = 0 THEN 0 ELSE Pow(2, i)) + bits_value(v, i + 1)

from_bits(v) == bits_value(v, 0)

shift_right(v, s) == [ i \in Bits |-> IF i + s < WordBits THEN v[i + s] ELSE 0 ]
shift_left(v, s) == [ i \in Bits |-> IF i - s >= 0 THEN v[i - s] ELSE 0 ]
bit_and(v, w) == [ i \in Bits |-> v[i] * w[i] ]
bit_or(v, w) == [ i \in Bits |-> IF v[i] + w[i] > 0 THEN 1 ELSE 0 ]
bit_xor(v, w) == [ i \in Bits |-> (v[i] + w[i]) % 2 ]

\* 0xaaaaaaaa, 0xcccccccc, 0xf0f0f0f0, 0xff00ff00 for s = 1, 2, 4, 8
high_mask(s) == [ i \in Bits |-> (i \div s) % 2 ]
\* 0x55555555, 0x33333333, 0x0f0f0f0f, 0x00ff00ff for s = 1, 2, 4, 8
low_mask(s) == [ i \in Bits |-> 1 - ((i \div s) % 2) ]

swap_stage(x, s) ==
  bit_or(shift_right(bit_and(x, high_mask(s)), s),
         shift_left(bit_and(x, low_mask(s)), s))

reverse_bits(x) ==
  LET x1 == swap_stage(x, 1)
      x2 == swap_stage(x1, 2)
      x3 == swap_stage(x2, 4)
      x4 == swap_stage(x3, 8)
  IN  bit_or(shift_right(x4, 16), shift_left(x4, 16))

\* ---------------------------------------------------------- host database
\* the tournament and its details object (and the ledger) as one value, so
\* that an action and the entry action that follows it compose
Cur ==
  [ state |-> state, start_time |-> start_time, prize_pool |-> prize_pool,
    registered_players |-> registered_players,
    details_players |-> details_players, payers |-> payers,
    matches |-> matches, balance |-> balance ]

\* a second tournament_object that is not a copy of the first yet
no_copy ==
  [ made |-> FALSE, state |-> "accepting_registrations",
    start_time |-> NoTime, prize_pool |-> 0, registered_players |-> 0,
    tournament_obj |-> "copy" ]

\* an empty flat_set<account_id_type> that no operation was applied to
no_impact == [ before |-> {}, op |-> [ which |-> "none" ], result |-> {} ]

\* a database without objects: undo journal disabled, no slot connected to
\* a signal, nothing dispatched
no_notify ==
  [ enabled |-> FALSE, slots |-> {}, objects |-> << >>,
    head |-> [ new_ids |-> {}, old_values |-> << >>, removed |-> << >> ],
    called |-> FALSE, sent |-> << >> ]

\* database::adjust_balance(account, delta): rejects a debit the balance
\* does not cover
can_adjust_balance(t, account, delta) == t.balance[account] + delta >= 0

adjust_balance(t, account, delta) ==
  [ t EXCEPT !.balance = [ @ EXCEPT ![account] = @ + delta ] ]

\* flat_map operator[] followed by +=: a missing key starts from 0
payers_add(p, payer, amount) ==
  IF payer \in DOMAIN p
    THEN [ p EXCEPT ![payer] = @ + amount ]
    ELSE p @@ (payer :> amount)

RECURSIVE sum_values(_, _)
sum_values(p, keys) ==
  IF keys = {} THEN 0
  ELSE LET k == CHOOSE x \in keys : TRUE
       IN  p[k] + sum_values(p, keys \ {k})

payers_total(p) == sum_values(p, DOMAIN p)

\* ------------------------------------------------------------ awaiting_start
\* the entry action with the start delay left out
awaiting_start_on_entry_without_delay(t) ==
  IF options.start_time # NoTime
    THEN [ t EXCEPT !.start_time = options.start_time ]
    ELSE [ t EXCEPT !.start_time = now ]

\* awaiting_start::on_entry(player_registered)
awaiting_start_on_entry(t) ==
  IF options.start_time # NoTime
    THEN [ t EXCEPT !.start_time = options.start_time ]
    ELSE [ t EXCEPT !.start_time = now + options.start_delay ]

\* ------------------------------------------------------------- in_progress
\* fc::hash_ctr_rng: the k-th draw (k = 0, 1, ...) of the generator seeded
\* with dynamic_global_properties.random, reduced to [0, bound)
rng(seed, k, bound) == (seed \div Pow(2, k)) % bound

Seeds == 0..MaxSeed

\* vector<account_id_type>(flat_set begin, end): ascending ids, from index 0
sorted_players(S) ==
  [ k \in 0..(Cardinality(S) - 1) |->
      CHOOSE a \in S : Cardinality({ b \in S : b < a }) = k ]

swap(v, i, j) == [ v EXCEPT ![i] = v[j], ![j] = v[i] ]

\* for (i = size - 1; i >= 1; --i) { j = rng(i + 1); swap(v[i], v[j]); }
RECURSIVE shuffle_from(_, _, _, _)
shuffle_from(v, i, seed, k) ==
  IF i < 1 THEN v
  ELSE shuffle_from(swap(v, i, rng(seed, k, i + 1)), i - 1, seed, k + 1)

seeded_players(S, seed) ==
  shuffle_from(sorted_players(S), Cardinality(S) - 1, seed, 0)

\* the round count taken from num_players instead of num_players - 1
num_rounds_of_num_players(num_players) == find_msb(num_players) + 1

num_rounds(num_players) == find_msb(num_players - 1) + 1
num_matches(num_players) == Pow(2, num_rounds(num_players)) - 1
num_matches_in_first_round(num_players) == Pow(2, num_rounds(num_players) - 1)

\* the position taken from the Gray code without reversing its bits
player_position_not_reversed(player_num, rounds) ==
  LET x == to_bits(player_num)
  IN  from_bits(bit_xor(x, shift_right(x, 1)))

\* the position shifted one bit too far
player_position_shifted_too_far(player_num, rounds) ==
  LET x == to_bits(player_num)
  IN  from_bits(shift_right(reverse_bits(bit_xor(x, shift_right(x, 1))),
                            WordBits - rounds + 1))

\* reverse_bits(player_num ^ (player_num >> 1)) >> (32 - num_rounds)
player_position(player_num, rounds) ==
  LET x == to_bits(player_num)
  IN  from_bits(shift_right(reverse_bits(bit_xor(x, shift_right(x, 1))),
                            WordBits - rounds))

\* player_position for every bracket of the model, computed once
position_table ==
  [ R \in 1..(find_msb(MaxBracketPlayers) + 1) |->
      [ p \in 0..(Pow(2, R) - 1) |-> player_position(p, R) ] ]

\* paired_players.resize(num_matches_in_first_round * 2)
empty_pairing(num_players) ==
  [ pos \in 0..(2 * num_matches_in_first_round(num_players) - 1) |->
      DefaultAccount ]

\* one pass of the pairing loop:
\* paired_players[player_position] = seeded_players[player_num]
assign_player(paired, seeded, player_num, rounds) ==
  [ paired EXCEPT ![position_table[rounds][player_num]] = seeded[player_num] ]

\* for (player_num = 0; player_num < num_players; ++player_num)
RECURSIVE assign_from(_, _, _, _)
assign_from(paired, seeded, player_num, num_players) ==
  IF player_num >= num_players THEN paired
  ELSE assign_from(assign_player(paired, seeded, player_num,
                                 num_rounds(num_players)),
                   seeded, player_num + 1, num_players)

paired_players(seeded, num_players) ==
  assign_from(empty_pairing(num_players), seeded, 0, num_players)

\* in_progress::create_match
create_match(players) ==
  [ players |-> players, match_winners |-> {},
    state |-> "waiting_on_previous_matches", start_time |-> now,
    end_time |-> IF Len(players) = 1 THEN now ELSE NoTime ]

\* match_object::on_initiate_match: a single player is a bye, which
\* completes at once with that player as the winner
on_initiate_match(m, players) ==
  IF Len(players) = 1
    THEN [ m EXCEPT !.players = players, !.match_winners = { players[1] },
                    !.state = "match_complete", !.end_time = now ]
    ELSE [ m EXCEPT !.players = players, !.state = "match_in_progress" ]

\* the players handed to first-round match i
first_round_players(paired, i) ==
  IF paired[2 * i + 1] # DefaultAccount
    THEN << paired[2 * i], paired[2 * i + 1] >>
    ELSE << paired[2 * i] >>

\* in_progress::on_entry(start_time_arrived)
in_progress_on_entry(t, seed) ==
  LET num_players == options.number_of_players
      seeded == seeded_players(t.details_players, seed)
      paired == paired_players(seeded, num_players)
      created == [ i \in 0..(num_matches(num_players) - 1) |->
                     create_match(<< >>) ]
      started == [ i \in DOMAIN created |->
                     IF i < num_matches_in_first_round(num_players)
                       THEN on_initiate_match(created[i],
                                              first_round_players(paired, i))
                       ELSE created[i] ]
  IN  [ t EXCEPT !.matches = started ]

\* ------------------------------------------- registration_period_expired
\* a refund of one buy-in per payer instead of the recorded amount
RECURSIVE refund_one_buy_in(_, _)
refund_one_buy_in(t, keys) ==
  IF keys = {} THEN t
  ELSE LET k == CHOOSE x \in keys : \A y \in keys : x <= y
       IN  refund_one_buy_in(adjust_balance(t, k, options.buy_in),
                             keys \ {k})

RECURSIVE refund_all(_, _)
refund_all(t, keys) ==
  IF keys = {} THEN t
  ELSE LET k == CHOOSE x \in keys : \A y \in keys : x <= y
       IN  refund_all(adjust_balance(t, k, t.payers[k]), keys \ {k})

\* registration_period_expired::on_entry(registration_deadline_passed)
registration_period_expired_on_entry(t) == refund_all(t, DOMAIN t.payers)

\* ------------------------------------------------------------ state machine
\* the guard comparing against number_of_players instead of one less
will_be_fully_registered_off_by_one(t) ==
  t.registered_players = options.number_of_players

\* Guards
will_be_fully_registered(t) ==
  t.registered_players = options.number_of_players - 1

\* register_player without the prize_pool update
register_player_pool_not_added(t, payer, player) ==
  LET debited == adjust_balance(t, payer, 0 - options.buy_in)
  IN  [ debited EXCEPT
          !.payers = payers_add(@, payer, options.buy_in),
          !.details_players = @ \cup { player },
          !.registered_players = @ + 1 ]

\* register_player assigning the buy-in to the payer's entry instead of
\* adding it
register_player_entry_assigned(t, payer, player) ==
  LET debited == adjust_balance(t, payer, 0 - options.buy_in)
  IN  [ debited EXCEPT
          !.payers = (payer :> options.buy_in) @@ @,
          !.details_players = @ \cup { player },
          !.registered_players = @ + 1,
          !.prize_pool = @ + options.buy_in ]

\* register_player, after its debit of the payer has succeeded
register_player(t, payer, player) ==
  LET debited == adjust_balance(t, payer, 0 - options.buy_in)
  IN  [ debited EXCEPT
          !.payers = payers_add(@, payer, options.buy_in),
          !.details_players = @ \cup { player },
          !.registered_players = @ + 1,
          !.prize_pool = @ + options.buy_in ]

\* struct transition_table, row by row
row_register ==
  [ start |-> "accepting_registrations", event |-> "player_registered",
    next |-> "accepting_registrations", action |-> "register_player",
    guard |-> "none" ]

row_register_last ==
  [ start |-> "accepting_registrations", event |-> "player_registered",
    next |-> "awaiting_start", action |-> "register_player",
    guard |-> "will_be_fully_registered" ]

row_expire ==
  [ start |-> "accepting_registrations",
    event |-> "registration_deadline_passed",
    next |-> "registration_period_expired", action |-> "none",
    guard |-> "none" ]

row_start ==
  [ start |-> "awaiting_start", event |-> "start_time_arrived",
    next |-> "in_progress", action |-> "none", guard |-> "none" ]

row_conclude ==
  [ start |-> "in_progress", event |-> "final_game_completed",
    next |-> "concluded", action |-> "none", guard |-> "none" ]

\* the table with a row that starts a concluded tournament again
transition_table_restart ==
  << row_register, row_register_last, row_expire, row_start, row_conclude,
     [ start |-> "concluded", event |-> "start_time_arrived",
       next |-> "in_progress", action |-> "none", guard |-> "none" ] >>

\* the table with a row that keeps registering players after the start
transition_table_late_registration ==
  << row_register, row_register_last, row_expire, row_start, row_conclude,
     [ start |-> "in_progress", event |-> "player_registered",
       next |-> "in_progress", action |-> "register_player",
       guard |-> "none" ] >>

\* the table with a row that lets the deadline cancel a full tournament
transition_table_late_expiry ==
  << row_register, row_register_last, row_expire, row_start, row_conclude,
     [ start |-> "awaiting_start", event |-> "registration_deadline_passed",
       next |-> "registration_period_expired", action |-> "none",
       guard |-> "none" ] >>

\* the table without the row that concludes a tournament in progress
transition_table_without_conclude ==
  << row_register, row_register_last, row_expire, row_start >>

transition_table ==
  << row_register, row_register_last, row_expire, row_start, row_conclude >>

\* every guard taken to accept
guard_ignored(row, t) == TRUE

guard_holds(row, t) ==
  IF row.guard = "will_be_fully_registered"
    THEN will_be_fully_registered(t)
    ELSE TRUE

\* boost::msm tries the rows of one (state, event) pair from the last one
\* of the table to the first and takes the first whose guard accepts
enabled_rows(t, event) ==
  { i \in DOMAIN transition_table :
      /\ transition_table[i].start = t.state
      /\ transition_table[i].event = event
      /\ guard_holds(transition_table[i], t) }

\* the entry action of the target state
on_entry(next, t, seed) ==
  CASE next = "awaiting_start" -> awaiting_start_on_entry(t)
    [] next = "in_progress" -> in_progress_on_entry(t, seed)
    [] next = "registration_period_expired" ->
         registration_period_expired_on_entry(t)
    [] OTHER -> t

\* process_event with a register_player that records the player before it
\* debits the payer, so that a rejected debit leaves the record behind
process_event_debit_last(t, event, payer, player, seed) ==
  LET rows == enabled_rows(t, event)
  IN  IF rows = {} THEN t
      ELSE LET row == transition_table[CHOOSE i \in rows :
                                         \A j \in rows : j <= i]
           IN  IF row.action = "register_player"
                 THEN IF can_adjust_balance(t, payer, 0 - options.buy_in)
                        THEN [ on_entry(row.next,
                                        register_player(t, payer, player),
                                        seed)
                               EXCEPT !.state = row.next ]
                        ELSE [ t EXCEPT
                                 !.payers =
                                   payers_add(@, payer, options.buy_in),
                                 !.details_players = @ \cup { player },
                                 !.registered_players = @ + 1,
                                 !.prize_pool = @ + options.buy_in ]
                 ELSE [ on_entry(row.next, t, seed)
                        EXCEPT !.state = row.next ]

\* state_machine::process_event: guard, action, entry action, then the
\* switch of the current state; an exception of the action leaves the
\* machine where it was, and an event no row accepts changes nothing
process_event(t, event, payer, player, seed) ==
  LET rows == enabled_rows(t, event)
  IN  IF rows = {} THEN t
      ELSE LET row == transition_table[CHOOSE i \in rows :
                                         \A j \in rows : j <= i]
           IN  IF row.action = "register_player"
                 THEN IF can_adjust_balance(t, payer, 0 - options.buy_in)
                        THEN [ on_entry(row.next,
                                        register_player(t, payer, player),
                                        seed)
                               EXCEPT !.state = row.next ]
                        ELSE t
                 ELSE [ on_entry(row.next, t, seed)
                        EXCEPT !.state = row.next ]

\* database::modify of the tournament and of its details object
Store(t) ==
  /\ state' = t.state
  /\ start_time' = t.start_time
  /\ prize_pool' = t.prize_pool
  /\ registered_players' = t.registered_players
  /\ details_players' = t.details_players
  /\ payers' = t.payers
  /\ matches' = t.matches
  /\ balance' = t.balance
  /\ UNCHANGED << options, now, other_vars >>

\* ------------------------------------------------------------ serialization
RECURSIVE add_states(_, _, _)
add_states(ids, names, i) ==
  IF i > Len(names) THEN ids
  ELSE add_states(IF \E k \in DOMAIN ids : ids[k] = names[i]
                    THEN ids ELSE Append(ids, names[i]),
                  names, i + 1)

\* msm::back::generate_state_set of the transition table: the state ids go
\* to the source states of the rows from the first row down, then to the
\* target states that are no source
all_states ==
  add_states(add_states(<< >>,
                        [ i \in DOMAIN transition_table |->
                            transition_table[i].start ], 1),
             [ i \in DOMAIN transition_table |-> transition_table[i].next ],
             1)

\* my->state_machine.current_state()[0] of a machine in the named state
current_state(name) ==
  (CHOOSE k \in DOMAIN all_states : all_states[k] = name) - 1

\* the tournament_object of the database record t
tournament_obj(t) ==
  [ id |-> 0, creator |-> DefaultAccount, options |-> options,
    start_time |-> t.start_time, end_time |-> NoTime,
    prize_pool |-> t.prize_pool,
    registered_players |-> t.registered_players,
    tournament_details_id |-> 0,
    current_state |-> current_state(t.state) ]

\* tournament_object::get_state: the state id cast to the enum
get_state(obj) == tournament_state[obj.current_state + 1]

\* fc::to_variant / as<> of an optional: a null variant when absent
optional_to_variant(x) == IF x = NoTime THEN << >> ELSE << x >>
optional_from_variant(v) == IF v = << >> THEN NoTime ELSE v[1]

\* fc::reflector<tournament_state>: an enum value is written by its name and
\* read back to its value
enum_from_variant(name) ==
  (CHOOSE k \in DOMAIN tournament_state : tournament_state[k] = name) - 1

\* fc::to_variant(const tournament_object&, fc::variant&)
to_variant(obj) ==
  [ id |-> obj.id, creator |-> obj.creator, options |-> obj.options,
    start_time |-> optional_to_variant(obj.start_time),
    end_time |-> optional_to_variant(obj.end_time),
    prize_pool |-> obj.prize_pool,
    registered_players |-> obj.registered_players,
    tournament_details_id |-> obj.tournament_details_id,
    state |-> get_state(obj) ]

\* a read that leaves the state machine of the new object in its initial
\* state, as the reflected members alone would
from_variant_without_state(v) ==
  [ id |-> v.id, creator |-> v.creator, options |-> v.options,
    start_time |-> optional_from_variant(v.start_time),
    end_time |-> optional_from_variant(v.end_time),
    prize_pool |-> v.prize_pool,
    registered_players |-> v.registered_players,
    tournament_details_id |-> v.tournament_details_id,
    current_state |-> 0 ]

\* fc::from_variant(const fc::variant&, tournament_object&): the state id is
\* written into the machine directly, no event is processed
from_variant(v) ==
  [ id |-> v.id, creator |-> v.creator, options |-> v.options,
    start_time |-> optional_from_variant(v.start_time),
    end_time |-> optional_from_variant(v.end_time),
    prize_pool |-> v.prize_pool,
    registered_players |-> v.registered_players,
    tournament_details_id |-> v.tournament_details_id,
    current_state |-> enum_from_variant(v.state) ]

\* --------------------------------------------------------------- the host
\* what the join evaluator requires of a tournament_join_operation before
\* it dispatches player_registered
join_allowed(player) ==
  /\ options.whitelist = {} \/ player \in options.whitelist
  /\ player \notin details_players
  /\ now <= options.registration_deadline

\* the host's block processing delivers a timed event to a tournament that
\* waits for it only once head_block_time has reached the threshold; an
\* event delivered in any other state is one the state does not handle
deadline_reached == now >= options.registration_deadline
start_reached == start_time # NoTime /\ now >= start_time
deadline_deliverable == state = "accepting_registrations" => deadline_reached
start_deliverable == state = "awaiting_start" => start_reached

\* ---------------------------------------------------------------- actions
\* tournament_object::on_player_registered
on_player_registered(payer, player) ==
  /\ join_allowed(player)
  /\ Store(process_event(Cur, "player_registered", payer, player, 0))

\* tournament_object::on_registration_deadline_passed
on_registration_deadline_passed ==
  /\ deadline_deliverable
  /\ Store(process_event(Cur, "registration_deadline_passed", 0, 0, 0))

\* tournament_object::on_start_time_arrived
on_start_time_arrived(seed) ==
  /\ start_deliverable
  /\ Store(process_event(Cur, "start_time_arrived", 0, 0, seed))

\* tournament_object::on_final_game_completed
on_final_game_completed ==
  /\ Store(process_event(Cur, "final_game_completed", 0, 0, 0))

\* the tournament object replaced by the one read back from its variant;
\* the details object and the balances are not within reach of from_variant
reload_from_variant ==
  LET obj == from_variant(to_variant(tournament_obj(Cur)))
  IN  /\ state' = all_states[obj.current_state + 1]
      /\ options' = obj.options
      /\ start_time' = obj.start_time
      /\ prize_pool' = obj.prize_pool
      /\ registered_players' = obj.registered_players
      /\ UNCHANGED << details_players, payers, matches, balance, now,
                      other_vars >>

\* a later block: head_block_time advances
next_block ==
  /\ now < MaxTime
  /\ now' = now + 1
  /\ UNCHANGED << state, options, start_time, prize_pool, registered_players,
                  details_players, payers, matches, balance, other_vars >>

\* tournament_options of the modelled tournaments: exactly one of start_time
\* and start_delay is present
Options ==
  { o \in [ number_of_players : 2..MaxPlayers, buy_in : BuyIns,
            registration_deadline : 1..(MaxTime - 1),
            start_time : { NoTime, MaxTime - 1 },
            start_delay : { NoTime, 0, 1 },
            whitelist : { {}, 1..MaxAccount } ] :
      (o.start_time = NoTime) # (o.start_delay = NoTime) }

\* the tournament as tournament_create leaves it
Init ==
  /\ copy = no_copy
  /\ options \in Options
  /\ state = "accepting_registrations"
  /\ start_time = NoTime
  /\ prize_pool = 0
  /\ registered_players = 0
  /\ details_players = {}
  /\ payers = << >>
  /\ matches = << >>
  /\ balance = [ a \in Accounts |-> InitialBalance ]
  /\ now = 0
  /\ bracket = [ num_players |-> 2, player_num |-> 0,
                 paired |-> empty_pairing(2) ]
  /\ impact = no_impact
  /\ notify = no_notify

Next ==
  \/ \E payer \in Payers, player \in Accounts :
       on_player_registered(payer, player)
  \/ on_registration_deadline_passed
  \/ \E seed \in Seeds : on_start_time_arrived(seed)
  \/ on_final_game_completed
  \/ reload_from_variant
  \/ next_block

Spec == Init /\ [][Next]_vars

\* the host keeps producing blocks and delivers the deadline, the start and
\* the end of the final game to a tournament that waits for them.  The weak
\* fairness of the delivery of start_time_arrived is written out, with its
\* enabling condition (a full tournament whose start time has come) in the
\* place of ENABLED.
Fairness ==
  /\ WF_vars(next_block)
  /\ WF_vars(/\ state = "accepting_registrations"
             /\ on_registration_deadline_passed)
  /\ \/ []<>(~(state = "awaiting_start" /\ start_reached))
     \/ []<><< \E seed \in Seeds : on_start_time_arrived(seed) >>_vars
  /\ WF_vars(/\ state = "in_progress"
             /\ on_final_game_completed)

FairSpec == Spec /\ Fairness

\* ------------------------------------------------ copies of the tournament
\* The variables state, start_time, prize_pool and registered_players are
\* the tournament_object the database holds (the original); copy is a second
\* tournament_object with its own state machine, whose member tournament_obj
\* names the object the guards and actions of the machine read and write.
\* Both objects have the same tournament_details_id: the details object, the
\* matches and the ledger are the database's.

\* the copy with its state machine left bound to the object it was copied
\* from
copy_constructor_bound_to_rhs(rhs) ==
  [ made |-> TRUE, state |-> rhs.state, start_time |-> rhs.start_time,
    prize_pool |-> rhs.prize_pool,
    registered_players |-> rhs.registered_players,
    tournament_obj |-> "original" ]

\* tournament_object::tournament_object(const tournament_object& rhs): the
\* members, then my->state_machine = rhs.my->state_machine, then
\* my->state_machine.tournament_obj = this
copy_constructor(rhs) ==
  LET members == [ made |-> TRUE, start_time |-> rhs.start_time,
                   prize_pool |-> rhs.prize_pool,
                   registered_players |-> rhs.registered_players ]
      state_machine == [ state |-> rhs.state, tournament_obj |-> "original" ]
  IN  members @@ [ state_machine EXCEPT !.tournament_obj = "copy" ]

\* tournament_object::operator=(const tournament_object& rhs) on the object
\* lhs
assign(lhs, rhs) ==
  LET members == [ lhs EXCEPT !.made = TRUE,
                              !.start_time = rhs.start_time,
                              !.prize_pool = rhs.prize_pool,
                              !.registered_players = rhs.registered_players ]
      assigned == [ members EXCEPT !.state = rhs.state,
                                   !.tournament_obj = "original" ]
  IN  [ assigned EXCEPT !.tournament_obj = "copy" ]

\* tournament_object copy(original)
construct_copy ==
  /\ ~copy.made
  /\ copy' = copy_constructor(Cur)
  /\ UNCHANGED << tournament_vars, bracket, impact, notify >>

\* copy = original, on a tournament_object that was default-constructed
assign_copy ==
  /\ ~copy.made
  /\ copy' = assign(copy, Cur)
  /\ UNCHANGED << tournament_vars, bracket, impact, notify >>

\* what the state machine of the copy works on: its own current state, the
\* members of the object its tournament_obj names, the database
CopyCur ==
  IF copy.tournament_obj = "copy"
    THEN [ Cur EXCEPT !.state = copy.state,
                      !.start_time = copy.start_time,
                      !.prize_pool = copy.prize_pool,
                      !.registered_players = copy.registered_players ]
    ELSE [ Cur EXCEPT !.state = copy.state ]

\* what an event processed by the state machine of the copy leaves behind
CopyStore(t) ==
  /\ copy' =
       IF copy.tournament_obj = "copy"
         THEN [ copy EXCEPT !.state = t.state,
                            !.start_time = t.start_time,
                            !.prize_pool = t.prize_pool,
                            !.registered_players = t.registered_players ]
         ELSE [ copy EXCEPT !.state = t.state ]
  /\ start_time' =
       IF copy.tournament_obj = "copy" THEN start_time ELSE t.start_time
  /\ prize_pool' =
       IF copy.tournament_obj = "copy" THEN prize_pool ELSE t.prize_pool
  /\ registered_players' =
       IF copy.tournament_obj = "copy" THEN registered_players
       ELSE t.registered_players
  /\ details_players' = t.details_players
  /\ payers' = t.payers
  /\ matches' = t.matches
  /\ balance' = t.balance
  /\ UNCHANGED << state, options, now, bracket, impact, notify >>

\* tournament_object::on_player_registered called on the copy
copy_on_player_registered(payer, player) ==
  /\ copy.made
  /\ join_allowed(player)
  /\ CopyStore(process_event(CopyCur, "player_registered", payer, player, 0))

\* tournament_object::on_registration_deadline_passed called on the copy
copy_on_registration_deadline_passed ==
  /\ copy.made
  /\ copy.state = "accepting_registrations" => deadline_reached
  /\ CopyStore(process_event(CopyCur, "registration_deadline_passed",
                             0, 0, 0))

\* tournament_object::on_start_time_arrived called on the copy
copy_on_start_time_arrived(seed) ==
  /\ copy.made
  /\ copy.state = "awaiting_start"
       => CopyCur.start_time # NoTime /\ now >= CopyCur.start_time
  /\ CopyStore(process_event(CopyCur, "start_time_arrived", 0, 0, seed))

\* tournament_object::on_final_game_completed called on the copy
copy_on_final_game_completed ==
  /\ copy.made
  /\ CopyStore(process_event(CopyCur, "final_game_completed", 0, 0, 0))

\* the tournaments open to every account that start as soon as they are
\* full
CopyInit ==
  /\ Init
  /\ options.whitelist = {}
  /\ options.start_delay = 0
  /\ options.registration_deadline = 1

\* the events of the original and of the copy, the buy-ins paid by
\* account 0 and the brackets seeded with 0
CopyNext ==
  \/ \E player \in Accounts : on_player_registered(0, player)
  \/ on_registration_deadline_passed
  \/ on_start_time_arrived(0)
  \/ on_final_game_completed
  \/ next_block
  \/ construct_copy
  \/ assign_copy
  \/ \E player \in Accounts : copy_on_player_registered(0, player)
  \/ copy_on_registration_deadline_passed
  \/ copy_on_start_time_arrived(0)
  \/ copy_on_final_game_completed

CopySpec == CopyInit /\ [][CopyNext]_vars

\* ------------------------------------------------ the bracket builder alone
\* the seeding of a bracket checked on its own: seed k (from 1) at index k - 1
bracket_seeding(num_players) == [ p \in 0..(num_players - 1) |-> p + 1 ]

\* one pass of the pairing loop of in_progress::on_entry
place_player ==
  /\ bracket.player_num < bracket.num_players
  /\ bracket' =
       [ bracket EXCEPT
           !.paired = assign_player(@, bracket_seeding(bracket.num_players),
                                    bracket.player_num,
                                    num_rounds(bracket.num_players)),
           !.player_num = @ + 1 ]
  /\ UNCHANGED << tournament_vars, impact, notify, copy >>

BracketInit ==
  /\ copy = no_copy
  /\ options = CHOOSE o \in Options : TRUE
  /\ state = "accepting_registrations"
  /\ start_time = NoTime
  /\ prize_pool = 0
  /\ registered_players = 0
  /\ details_players = {}
  /\ payers = << >>
  /\ matches = << >>
  /\ balance = [ a \in Accounts |-> InitialBalance ]
  /\ now = 0
  /\ \E n \in 2..MaxBracketPlayers :
       bracket = [ num_players |-> n, player_num |-> 0,
                   paired |-> empty_pairing(n) ]
  /\ impact = no_impact
  /\ notify = no_notify

BracketNext == place_player

BracketSpec == BracketInit /\ [][BracketNext]_vars

\* ------------------------------------------------------ the impact resolver
ImpactAccounts == 0..MaxImpactAccount

\* the account_auths of the authorities of the modelled operations: none,
\* one account, several accounts
Authorities == { {}, { 0 }, 1..MaxImpactAccount }

\* the operations of the modelled transactions, with the members that name
\* accounts
Operations ==
  [ which : { "transfer_operation" },
    from : ImpactAccounts, to : ImpactAccounts ]
  \cup [ which : { "limit_order_create_operation" }, seller : ImpactAccounts ]
  \cup [ which : { "account_create_operation" },
         registrar : ImpactAccounts, referrer : ImpactAccounts,
         owner : Authorities, active : Authorities ]
  \cup [ which : { "override_transfer_operation" },
         issuer : ImpactAccounts, from : ImpactAccounts,
         to : ImpactAccounts ]
  \cup [ which : { "tournament_create_operation" },
         creator : ImpactAccounts, whitelist : SUBSET ImpactAccounts ]
  \cup [ which : { "tournament_join_operation" },
         payer_account_id : ImpactAccounts,
         player_account_id : ImpactAccounts ]
  \cup [ which : { "tournament_leave_operation" },
         canceling_account_id : ImpactAccounts,
         player_account_id : ImpactAccounts ]

\* add_authority_accounts: every account of the authority's account_auths
add_authority_accounts(result, a) == result \cup a

\* a tournament_leave_operation that inserts the accounts, as the
\* tournament_join_operation does
visit_leave_inserting(op, _impacted) ==
  IF op.which = "tournament_leave_operation"
    THEN _impacted \cup { op.canceling_account_id, op.player_account_id }
    ELSE _impacted

\* get_impacted_account_visitor::operator()(const tournament_leave_operation&)
visit_leave(op, _impacted) ==
  IF op.canceling_account_id # op.player_account_id
    THEN (_impacted \ { op.canceling_account_id }) \ { op.player_account_id }
    ELSE _impacted \ { op.player_account_id }

\* a tournament_create_operation that impacts its creator alone
visit_tournament_create_creator_only(op, _impacted) ==
  _impacted \cup { op.creator }

\* get_impacted_account_visitor::operator()(const tournament_create_operation&)
visit_tournament_create(op, _impacted) ==
  (_impacted \cup { op.creator }) \cup op.whitelist

\* a transfer_operation that replaces the running set by its receiver
visit_transfer_replacing(op, _impacted) == { op.to }

\* a transfer_operation that impacts its sender as well
visit_transfer_with_from(op, _impacted) == _impacted \cup { op.to, op.from }

\* get_impacted_account_visitor::operator()(const transfer_operation&)
visit_transfer(op, _impacted) == _impacted \cup { op.to }

\* get_impacted_account_visitor: one overload per operation
get_impacted_account_visitor(op, _impacted) ==
  CASE op.which = "transfer_operation" -> visit_transfer(op, _impacted)
    [] op.which = "limit_order_create_operation" -> _impacted
    [] op.which = "account_create_operation" ->
         add_authority_accounts(
           add_authority_accounts(
             (_impacted \cup { op.registrar }) \cup { op.referrer },
             op.owner),
           op.active)
    [] op.which = "override_transfer_operation" ->
         ((_impacted \cup { op.to }) \cup { op.from }) \cup { op.issuer }
    [] op.which = "tournament_create_operation" ->
         visit_tournament_create(op, _impacted)
    [] op.which = "tournament_join_operation" ->
         (_impacted \cup { op.payer_account_id })
           \cup { op.player_account_id }
    [] op.which = "tournament_leave_operation" -> visit_leave(op, _impacted)

\* operation_get_impacted_accounts(op, result): the next operation of a
\* transaction is visited with the set the operations before it left
operation_get_impacted_accounts(op) ==
  /\ impact' = [ before |-> impact.result, op |-> op,
                 result |-> get_impacted_account_visitor(op, impact.result) ]
  /\ UNCHANGED << tournament_vars, bracket, notify, copy >>

ImpactInit ==
  /\ copy = no_copy
  /\ options = CHOOSE o \in Options : TRUE
  /\ state = "accepting_registrations"
  /\ start_time = NoTime
  /\ prize_pool = 0
  /\ registered_players = 0
  /\ details_players = {}
  /\ payers = << >>
  /\ matches = << >>
  /\ balance = [ a \in Accounts |-> InitialBalance ]
  /\ now = 0
  /\ bracket = [ num_players |-> 2, player_num |-> 0,
                 paired |-> empty_pairing(2) ]
  /\ \E S \in SUBSET ImpactAccounts :
       impact = [ no_impact EXCEPT !.before = S, !.result = S ]
  /\ notify = no_notify

ImpactNext == \E op \in Operations : operation_get_impacted_accounts(op)

ImpactSpec == ImpactInit /\ [][ImpactNext]_vars

\* ------------------------------------------------- change notifications
ObjectIds == 0..MaxObject

\* the objects of the modelled database: asset objects, told apart by issuer
Objects == [ type : { "asset_object_type" }, issuer : 0..MaxIssuer ]

\* the signals of the database
Signals == { "new_objects", "changed_objects", "removed_objects" }

\* f with the key k removed
without(f, k) == [ x \in DOMAIN f \ { k } |-> f[x] ]

\* f with the key k set to v
with(f, k, v) == [ x \in DOMAIN f \cup { k } |-> IF x = k THEN v ELSE f[x] ]

\* get_relevant_accounts(obj, accounts)
get_relevant_accounts(obj, accounts) ==
  CASE obj.type = "asset_object_type" -> accounts \cup { obj.issuer }
    [] OTHER -> accounts

\* get_relevant_accounts over the objects objs[id], id in ids
RECURSIVE accounts_of(_, _, _)
accounts_of(objs, ids, accounts) ==
  IF ids = {} THEN accounts
  ELSE LET id == CHOOSE x \in ids : \A y \in ids : x <= y
       IN  accounts_of(objs, ids \ { id },
                       get_relevant_accounts(objs[id], accounts))

\* database::create: the object is stored and the undo journal, when
\* enabled, records its id as new
create(id, obj) ==
  /\ ~notify.called
  /\ id \notin DOMAIN notify.objects
  /\ id \notin notify.head.new_ids
  /\ id \notin DOMAIN notify.head.removed
  /\ notify' =
       [ notify EXCEPT
           !.objects = with(@, id, obj),
           !.head.new_ids = IF notify.enabled THEN @ \cup { id } ELSE @ ]
  /\ UNCHANGED << tournament_vars, bracket, impact, copy >>

\* database::modify: the undo journal keeps the value an object had before
\* its first modification, unless the object is new
modify(id, obj) ==
  /\ ~notify.called
  /\ id \in DOMAIN notify.objects
  /\ notify' =
       [ notify EXCEPT
           !.objects = with(@, id, obj),
           !.head.old_values =
             IF /\ notify.enabled
                /\ id \notin notify.head.new_ids
                /\ id \notin DOMAIN @
               THEN with(@, id, notify.objects[id])
               ELSE @ ]
  /\ UNCHANGED << tournament_vars, bracket, impact, copy >>

\* database::remove: the undo journal keeps the removed object; an
\* implementation of the journal either forgets a new object that is
\* removed and files a changed one under its old value (forgets), or
\* records the removal next to what it holds already
remove(id, forgets) ==
  /\ ~notify.called
  /\ id \in DOMAIN notify.objects
  /\ notify' =
       [ notify EXCEPT
           !.objects = without(@, id),
           !.head =
             IF ~notify.enabled THEN @
             ELSE IF forgets /\ id \in @.new_ids
               THEN [ @ EXCEPT !.new_ids = @ \ { id } ]
             ELSE IF forgets /\ id \in DOMAIN @.old_values
               THEN [ @ EXCEPT
                        !.removed = with(@, id,
                                         notify.head.old_values[id]),
                        !.old_values = without(@, id) ]
             ELSE [ @ EXCEPT !.removed = with(@, id, notify.objects[id]) ] ]
  /\ UNCHANGED << tournament_vars, bracket, impact, copy >>

\* what notify_changed_objects hands to the signal new_objects
new_dispatch(db) ==
  [ signal |-> "new_objects", ids |-> db.head.new_ids,
    accounts |-> accounts_of(db.objects,
                             db.head.new_ids \cap DOMAIN db.objects, {}) ]

\* the changed notification computed from the values the objects have now
changed_dispatch_current_values(db) ==
  [ signal |-> "changed_objects", ids |-> DOMAIN db.head.old_values,
    accounts |-> accounts_of(db.objects,
                             DOMAIN db.head.old_values \cap DOMAIN db.objects,
                             {}) ]

\* what it hands to the signal changed_objects
changed_dispatch(db) ==
  [ signal |-> "changed_objects", ids |-> DOMAIN db.head.old_values,
    accounts |-> accounts_of(db.head.old_values,
                             DOMAIN db.head.old_values, {}) ]

\* what it hands to the signal removed_objects
removed_dispatch(db) ==
  [ signal |-> "removed_objects", ids |-> DOMAIN db.head.removed,
    removed |-> db.head.removed,
    accounts |-> accounts_of(db.head.removed, DOMAIN db.head.removed, {}) ]

\* the body of database::notify_changed_objects: a signal is called when
\* the journal is enabled and the signal is not empty, i.e. has a slot
dispatched(db) ==
  IF db.enabled
    THEN (IF "new_objects" \in db.slots
            THEN << new_dispatch(db) >> ELSE << >>)
         \o (IF "changed_objects" \in db.slots
               THEN << changed_dispatch(db) >> ELSE << >>)
         \o (IF "removed_objects" \in db.slots
               THEN << removed_dispatch(db) >> ELSE << >>)
    ELSE << >>

\* database::notify_changed_objects, called once the batch is applied
notify_changed_objects ==
  /\ ~notify.called
  /\ notify' = [ notify EXCEPT !.called = TRUE, !.sent = dispatched(notify) ]
  /\ UNCHANGED << tournament_vars, bracket, impact, copy >>

\* the database before a batch: some objects, an empty undo journal that is
\* enabled or not, slots connected to some of the signals
NotifyInit ==
  /\ copy = no_copy
  /\ options = CHOOSE o \in Options : TRUE
  /\ state = "accepting_registrations"
  /\ start_time = NoTime
  /\ prize_pool = 0
  /\ registered_players = 0
  /\ details_players = {}
  /\ payers = << >>
  /\ matches = << >>
  /\ balance = [ a \in Accounts |-> InitialBalance ]
  /\ now = 0
  /\ bracket = [ num_players |-> 2, player_num |-> 0,
                 paired |-> empty_pairing(2) ]
  /\ impact = no_impact
  /\ \E enabled \in BOOLEAN, slots \in SUBSET Signals,
        ids \in SUBSET ObjectIds :
       \E objects \in [ ids -> Objects ] :
         notify = [ no_notify EXCEPT !.enabled = enabled, !.slots = slots,
                                     !.objects = objects ]

NotifyNext ==
  \/ \E id \in ObjectIds, obj \in Objects : create(id, obj)
  \/ \E id \in ObjectIds, obj \in Objects : modify(id, obj)
  \/ \E id \in ObjectIds, forgets \in BOOLEAN : remove(id, forgets)
  \/ notify_changed_objects

NotifySpec == NotifyInit /\ [][NotifyNext]_vars

\* ------------------------------------------------- the match scheduler
\* the layout of a heap whose root, the final, is at index 0
first_match_in_round_final_first(ms_size, round_num) ==
  ((ms_size + 1) \div Pow(2, round_num + 1)) - 1

\* num_matches - (num_matches >> round_num)
first_match_in_round(ms_size, round_num) ==
  ms_size - (ms_size \div Pow(2, round_num))

\* 1 << (num_rounds - round_num - 1)
num_matches_in_round(rounds, round_num) == Pow(2, rounds - round_num - 1)

\* the indices the scheduler scans as round round_num of the matches ms
round_matches(ms, round_num) ==
  LET ms_size == Cardinality(DOMAIN ms)
      first == first_match_in_round(ms_size, round_num)
  IN  first..(first + num_matches_in_round(find_msb(ms_size + 1), round_num)
                - 1)

\* a scan that takes a round for complete as soon as one of its matches is
RECURSIVE scan_rounds_any_complete(_, _)
scan_rounds_any_complete(ms, round_num) ==
  IF round_num >= find_msb(Cardinality(DOMAIN ms) + 1) THEN round_num - 1
  ELSE IF \E m \in round_matches(ms, round_num) :
            ms[m].state = "match_complete"
         THEN scan_rounds_any_complete(ms, round_num + 1)
         ELSE round_num - 1

\* the scan for the last round whose matches are all complete, from
\* round_num on; -1 if round 0 is not complete
RECURSIVE scan_rounds(_, _)
scan_rounds(ms, round_num) ==
  IF round_num >= find_msb(Cardinality(DOMAIN ms) + 1) THEN round_num - 1
  ELSE IF \A m \in round_matches(ms, round_num) :
            ms[m].state = "match_complete"
         THEN scan_rounds(ms, round_num + 1)
         ELSE round_num - 1

last_complete_round(ms) == scan_rounds(ms, 0)

\* the state of the match at which the scan of round round_num broke off
first_incomplete_match_was_waiting(ms, round_num) ==
  LET incomplete == { m \in round_matches(ms, round_num) :
                        ms[m].state # "match_complete" }
      first == CHOOSE m \in incomplete : \A x \in incomplete : m <= x
  IN  ms[first].state = "waiting_on_previous_matches"

\* (num_matches - 1) - ((num_matches - 1 - match_num) * 2 + 2)
left_child_index(ms_size, match_num) ==
  (ms_size - 1) - ((ms_size - 1 - match_num) * 2 + 2)

right_child_index(ms_size, match_num) == left_child_index(ms_size, match_num) + 1

\* *match_winners.begin() of a match that has a winner, in a vector
winner_of(m) ==
  IF m.match_winners = {} THEN << >>
  ELSE << CHOOSE w \in m.match_winners : \A x \in m.match_winners : w <= x >>

\* the loop body adding the winners to the players the match already has
start_match_appending(ms, match_num) ==
  LET ms_size == Cardinality(DOMAIN ms)
      left == left_child_index(ms_size, match_num)
      right == right_child_index(ms_size, match_num)
      winners == winner_of(ms[left]) \o winner_of(ms[right])
      match_to_start == left
  IN  [ ms EXCEPT ![match_to_start].players = @ \o winners ]

\* the body of the loop over the matches of the first incomplete round:
\* match_to_start is matches[left_child_index]
start_match(ms, match_num) ==
  LET ms_size == Cardinality(DOMAIN ms)
      left == left_child_index(ms_size, match_num)
      right == right_child_index(ms_size, match_num)
      winners == winner_of(ms[left]) \o winner_of(ms[right])
      match_to_start == left
  IN  [ ms EXCEPT ![match_to_start].players = winners ]

\* for (match_num = first; match_num < first + num_matches; ++match_num)
RECURSIVE start_matches_from(_, _, _)
start_matches_from(ms, match_num, end) ==
  IF match_num >= end THEN ms
  ELSE start_matches_from(start_match(ms, match_num), match_num + 1, end)

\* the matches after tournament_object::check_for_new_matches_to_start
new_matches_to_start(ms) ==
  LET rounds == find_msb(Cardinality(DOMAIN ms) + 1)
      last == last_complete_round(ms)
  IN  IF last = -1 \/ last = rounds - 1 THEN ms
      ELSE IF first_incomplete_match_was_waiting(ms, last + 1)
        THEN LET incomplete == round_matches(ms, last + 1)
                 first == CHOOSE m \in incomplete :
                            \A x \in incomplete : m <= x
             IN  start_matches_from(ms, first,
                                    first + Cardinality(incomplete))
        ELSE ms

\* tournament_object::check_for_new_matches_to_start
check_for_new_matches_to_start ==
  /\ matches' = new_matches_to_start(matches)
  /\ UNCHANGED << state, options, start_time, prize_pool, registered_players,
                  details_players, payers, balance, now, other_vars >>

\* a match that is being played completes with one of its players as the
\* winner
complete_match(m, winner) ==
  /\ m \in DOMAIN matches
  /\ matches[m].state = "match_in_progress"
  /\ \E k \in DOMAIN matches[m].players : matches[m].players[k] = winner
  /\ matches' = [ matches EXCEPT ![m].state = "match_complete",
                                 ![m].match_winners = { winner },
                                 ![m].end_time = now ]
  /\ UNCHANGED << state, options, start_time, prize_pool, registered_players,
                  details_players, payers, balance, now, other_vars >>

\* a tournament of 2..MaxSchedulerPlayers players without buy-in, either as
\* in_progress::on_entry leaves it or still accepting registrations, with
\* no match created yet
SchedulerInit ==
  /\ copy = no_copy
  /\ \E n \in 2..MaxSchedulerPlayers, first \in { 0, 1 }, seed \in Seeds :
       /\ options = [ number_of_players |-> n, buy_in |-> 0,
                      registration_deadline |-> 1, start_time |-> NoTime,
                      start_delay |-> 0, whitelist |-> {} ]
       /\ now = 0
       /\ \/ /\ state = "in_progress"
             /\ details_players = first..(first + n - 1)
             /\ registered_players = n
             /\ start_time = 0
             /\ matches =
                  in_progress_on_entry(
                    [ details_players |-> first..(first + n - 1),
                      matches |-> << >> ], seed).matches
          \/ /\ state = "accepting_registrations"
             /\ details_players = first..(first + n - 2)
             /\ registered_players = n - 1
             /\ start_time = NoTime
             /\ matches = << >>
  /\ prize_pool = 0
  /\ payers = (0 :> 0)
  /\ balance = [ a \in Accounts |-> InitialBalance ]
  /\ bracket = [ num_players |-> 2, player_num |-> 0,
                 paired |-> empty_pairing(2) ]
  /\ impact = no_impact
  /\ notify = no_notify

SchedulerNext ==
  \/ \E m \in 0..(2 * MaxSchedulerPlayers),
        winner \in 0..MaxSchedulerPlayers : complete_match(m, winner)
  \/ check_for_new_matches_to_start

SchedulerSpec == SchedulerInit /\ [][SchedulerNext]_vars

\* ---------------------------------------------- scheduler on given matches
\* The match objects are database objects of their own, which the scheduler
\* reads: check_for_new_matches_to_start applied to every bracket in which a
\* match of a later round has left waiting_on_previous_matches only after
\* both of its children completed, with their winners as its players.

match_states == { "waiting_on_previous_matches", "match_in_progress",
                  "match_complete" }

\* the states match m of the bracket base can be in, given the progress of
\* the matches before it (its children among them)
possible_states(base, progress, m) ==
  LET ms_size == Cardinality(DOMAIN base)
  IN  IF m < (ms_size + 1) \div 2
        THEN IF base[m].state = "match_complete" THEN { "match_complete" }
             ELSE { "match_in_progress", "match_complete" }
        ELSE IF /\ progress[left_child_index(ms_size, m)] = "match_complete"
                /\ progress[right_child_index(ms_size, m)] = "match_complete"
               THEN match_states
               ELSE { "waiting_on_previous_matches" }

\* every possible progress of the matches 0..(m - 1) of the bracket base
RECURSIVE possible_progress(_, _)
possible_progress(base, m) ==
  IF m = 0 THEN { << >> }
  ELSE UNION { { progress @@ ((m - 1) :> s) :
                   s \in possible_states(base, progress, m - 1) } :
               progress \in possible_progress(base, m - 1) }

\* match m of the bracket base at the given progress; the second player of
\* a match wins when upset is 1
RECURSIVE match_at(_, _, _, _)
match_at(base, progress, upset, m) ==
  LET ms_size == Cardinality(DOMAIN base)
      players ==
        IF m < (ms_size + 1) \div 2 THEN base[m].players
        ELSE IF progress[m] = "waiting_on_previous_matches" THEN << >>
        ELSE winner_of(match_at(base, progress, upset,
                                left_child_index(ms_size, m)))
               \o winner_of(match_at(base, progress, upset,
                                     right_child_index(ms_size, m)))
      winner == IF Len(players) = 2 /\ upset = 1 THEN 2 ELSE 1
  IN  [ base[m] EXCEPT
          !.players = players,
          !.state = progress[m],
          !.match_winners = IF progress[m] = "match_complete"
                              THEN { players[winner] } ELSE {},
          !.end_time = IF progress[m] = "match_complete" THEN now
                       ELSE NoTime ]

\* a started tournament of 2..MaxSchedulerPlayers players 1..n without
\* buy-in whose matches have made some possible progress
GivenMatchesInit ==
  /\ copy = no_copy
  /\ \E n \in 2..MaxSchedulerPlayers, upset \in { 0, 1 } :
       LET base == in_progress_on_entry(
                     [ details_players |-> 1..n, matches |-> << >> ],
                     0).matches
       IN  /\ options = [ number_of_players |-> n, buy_in |-> 0,
                          registration_deadline |-> 1, start_time |-> NoTime,
                          start_delay |-> 0, whitelist |-> {} ]
           /\ details_players = 1..n
           /\ registered_players = n
           /\ now = 0
           /\ \E progress \in possible_progress(base,
                                                 Cardinality(DOMAIN base)) :
                matches = [ m \in DOMAIN base |->
                              match_at(base, progress, upset, m) ]
  /\ state = "in_progress"
  /\ start_time = 0
  /\ prize_pool = 0
  /\ payers = (0 :> 0)
  /\ balance = [ a \in Accounts |-> InitialBalance ]
  /\ bracket = [ num_players |-> 2, player_num |-> 0,
                 paired |-> empty_pairing(2) ]
  /\ impact = no_impact
  /\ notify = no_notify

GivenMatchesNext == check_for_new_matches_to_start

GivenMatchesSpec == GivenMatchesInit /\ [][GivenMatchesNext]_vars

\* ------------------------------------------------------------------ claims
Edges ==
  { << "accepting_registrations", "accepting_registrations" >>,
    << "accepting_registrations", "awaiting_start" >>,
    << "accepting_registrations", "registration_period_expired" >>,
    << "awaiting_start", "in_progress" >>,
    << "in_progress", "concluded" >> }

\* C1: whatever events are delivered, every change of the tournament state
\* is one of the five edges of the transition table, and the states
\* registration_period_expired and concluded are never left.
C1_OnlyTableEdges ==
  [][ /\ state' # state => << state, state' >> \in Edges
      /\ state \in { "registration_period_expired", "concluded" }
           => state' = state ]_vars

\* C1 witness: a tournament that went all the way to concluded and has since
\* been offered the deadline and the start events again
C1_Witness ==
  /\ state = "concluded"
  /\ deadline_reached
  /\ start_reached

\* C2: prize_pool is the sum of details.payers and equals
\* buy_in.amount * registered_players.
C2_PrizePoolLedger ==
  /\ prize_pool = payers_total(payers)
  /\ prize_pool = options.buy_in * registered_players

\* C2 witness: two payers, one of whom paid for two players
C2_Witness ==
  /\ DOMAIN payers = { 0, 1 }
  /\ payers[0] = 20
  /\ payers[1] = 10
  /\ prize_pool = 30

\* C3: the counter registered_players is the size of
\* details.registered_players and never exceeds options.number_of_players.
C3_RegisteredCount ==
  /\ registered_players = Cardinality(details_players)
  /\ registered_players <= options.number_of_players

\* C3 witness: a full tournament of three players out of four accounts
C3_Witness ==
  /\ options.number_of_players = 3
  /\ registered_players = 3
  /\ Cardinality(details_players) = 3

FullStates == { "awaiting_start", "in_progress", "concluded" }

\* C4 as stated: the state is awaiting_start exactly when the tournament is
\* full and the registration deadline has not passed.
C4_AwaitingStartIffFullBeforeDeadline ==
  (state = "awaiting_start")
    <=> (/\ registered_players = options.number_of_players
         /\ now < options.registration_deadline)

\* C4 amended: the tournament is full exactly when its state is
\* awaiting_start, in_progress or concluded; in particular awaiting_start
\* implies a full tournament, whether or not the deadline has passed.
C4_FullIffStartedOrAwaiting ==
  (registered_players = options.number_of_players) <=> (state \in FullStates)

\* C4 witness: a full tournament still awaiting its start after the deadline
C4_Witness ==
  /\ state = "awaiting_start"
  /\ registered_players = options.number_of_players
  /\ now > options.registration_deadline

\* C5: a player_registered event handled in accepting_registrations runs
\* register_player once (one more player, one more buy-in in the pool) and
\* moves to awaiting_start exactly when that player is the last one; with
\* four players and a buy-in of 10 the fourth join gives awaiting_start with
\* a pool of 40 and the first three leave the tournament accepting.
C5_RegisterThenMaybeAwait ==
  /\ [][ (/\ state = "accepting_registrations"
          /\ \E payer \in Payers, player \in Accounts :
               on_player_registered(payer, player))
         => /\ registered_players' = registered_players + 1
            /\ Cardinality(details_players') = Cardinality(details_players) + 1
            /\ prize_pool' = prize_pool + options.buy_in
            /\ state' = IF registered_players + 1 = options.number_of_players
                          THEN "awaiting_start"
                          ELSE "accepting_registrations" ]_vars
  /\ [](options.number_of_players = 4 /\ options.buy_in = 10
          => /\ registered_players = 4
                  => state \in FullStates /\ prize_pool = 40
             /\ registered_players < 4
                  => state \in { "accepting_registrations",
                                 "registration_period_expired" })

\* C5 witness: the state right after the fourth join of scenario S1
C5_Witness ==
  /\ options.number_of_players = 4
  /\ options.buy_in = 10
  /\ state = "awaiting_start"
  /\ registered_players = 4
  /\ prize_pool = 40

\* C6: start_time is absent while registrations are accepted, is set on
\* entering awaiting_start to options.start_time if present and else to
\* head_block_time + options.start_delay, and never changes afterwards.
C6_StartTimeSetOnce ==
  /\ [](state = "accepting_registrations" => start_time = NoTime)
  /\ [][ /\ (state # "awaiting_start" /\ state' = "awaiting_start")
              => start_time' = IF options.start_time # NoTime
                                 THEN options.start_time
                                 ELSE now + options.start_delay
         /\ state # "accepting_registrations" => start_time' = start_time
       ]_vars

\* C6 witness: a tournament filled at time 1 with a start delay of 1, now
\* started, whose start_time is still 2
C6_Witness ==
  /\ state = "in_progress"
  /\ options.start_delay = 1
  /\ start_time = 2
  /\ now = 2

\* C7: registration_deadline_passed in accepting_registrations leads to
\* registration_period_expired and credits every payer the amount recorded
\* for it, which restores every balance to its value before the tournament;
\* accounts that paid nothing are not credited.
C7_RefundOnExpiry ==
  [][ (state = "accepting_registrations" /\ on_registration_deadline_passed)
      => /\ state' = "registration_period_expired"
         /\ \A a \in Accounts :
              /\ balance'[a] = balance[a]
                               + (IF a \in DOMAIN payers THEN payers[a] ELSE 0)
              /\ balance'[a] = InitialBalance ]_vars

\* C7 witness: an expired tournament one payer of which had paid twice
C7_Witness ==
  /\ state = "registration_period_expired"
  /\ DOMAIN payers = { 0, 1 }
  /\ payers[0] = 20
  /\ \A a \in Accounts : balance[a] = InitialBalance

\* C8: in in_progress, concluded and registration_period_expired no event
\* changes registered_players, details.registered_players, details.payers or
\* prize_pool; prize_pool never decreases and changes only in
\* accepting_registrations.
C8_FrozenAfterRegistration ==
  [][ /\ state \in { "in_progress", "concluded",
                     "registration_period_expired" }
           => UNCHANGED << registered_players, details_players, payers,
                           prize_pool >>
      /\ prize_pool' >= prize_pool
      /\ state # "accepting_registrations" => prize_pool' = prize_pool ]_vars

\* C8 witness: a started tournament with a non-empty pool, while joins are
\* still admitted by the deadline and an account is left to join
C8_Witness ==
  /\ state = "in_progress"
  /\ prize_pool > 0
  /\ \E player \in Accounts : join_allowed(player)

\* the least r with 2^r >= n
CeilLog2(n) ==
  CHOOSE r \in 0..(WordBits - 2) :
    Pow(2, r) >= n /\ (r = 0 \/ Pow(2, r - 1) < n)

\* C9: in in_progress and concluded details.matches has
\* 2^ceil(log2(number_of_players)) - 1 entries; in every other state it is
\* empty.
C9_MatchCount ==
  IF state \in { "in_progress", "concluded" }
    THEN Cardinality(DOMAIN matches)
           = Pow(2, CeilLog2(options.number_of_players)) - 1
    ELSE DOMAIN matches = {}

\* C9 witness: three players started, hence three matches
C9_Witness ==
  /\ state = "in_progress"
  /\ options.number_of_players = 3
  /\ Cardinality(DOMAIN matches) = 3

\* the slots of paired that hold no player
bye_slots == { pos \in DOMAIN bracket.paired : bracket.paired[pos] = DefaultAccount }

Bit(n, i) == (n \div Pow(2, i)) % 2

\* bit i of n XOR (n >> 1)
GrayBit(n, i) == (Bit(n, i) + Bit(n, i + 1)) % 2

\* the low `width` bits of n XOR (n >> 1), read in the opposite order
RECURSIVE ReversedGrayFrom(_, _, _)
ReversedGrayFrom(n, width, i) ==
  IF i >= width THEN 0
  ELSE GrayBit(n, i) * Pow(2, width - 1 - i) + ReversedGrayFrom(n, width, i + 1)

ReversedGray(n, width) == ReversedGrayFrom(n, width, 0)

IsPowerOfTwo(n) == \E r \in 0..(WordBits - 2) : Pow(2, r) = n

\* C10: the pairing loop writes the players to pairwise distinct slots of
\* paired, whose length is 2^R with R = floor(log2(N - 1)) + 1; when it ends
\* every seeded player is in exactly one slot, 2^R - N slots are byes, none
\* if N is a power of two, and N = 2 gives the single pair of both players.
C10_PairingIsInjective ==
  LET N == bracket.num_players
      R == CeilLog2(N)
      placed == bracket.player_num
      seeded == bracket_seeding(N)
  IN  /\ DOMAIN bracket.paired = 0..(Pow(2, R) - 1)
      /\ \A p \in 0..(placed - 1) :
           { pos \in DOMAIN bracket.paired : bracket.paired[pos] = seeded[p] }
             = { ReversedGray(p, R) }
      /\ Cardinality(bye_slots) = Pow(2, R) - placed
      /\ placed = N
           => /\ IsPowerOfTwo(N) => bye_slots = {}
              /\ N = 2 => bracket.paired[0] = 1 /\ bracket.paired[1] = 2

\* C10 witness: thirteen players placed in sixteen slots, three byes left
C10_Witness ==
  /\ bracket.num_players = 13
  /\ bracket.player_num = 13
  /\ Cardinality(bye_slots) = 3

C13_VariantRoundTrip ==
  /\ [](/\ from_variant(to_variant(tournament_obj(Cur))) = tournament_obj(Cur)
        /\ to_variant(tournament_obj(Cur)).state = state)
  /\ [][UNCHANGED vars \/ ~reload_from_variant]_vars

\* C13 witness: a cancelled tournament whose payers were refunded is written
\* and read back; an entry action run again would refund them twice
C13_Witness ==
  /\ state = "registration_period_expired"
  /\ prize_pool = 20
  /\ to_variant(tournament_obj(Cur)).state = "registration_period_expired"
  /\ to_variant(tournament_obj(Cur)).start_time = << >>
  /\ from_variant(to_variant(tournament_obj(Cur))).current_state = 3

\* the (state, event) pairs that have a row in the transition table
Handled ==
  { << "accepting_registrations", "player_registered" >>,
    << "accepting_registrations", "registration_deadline_passed" >>,
    << "awaiting_start", "start_time_arrived" >>,
    << "in_progress", "final_game_completed" >> }

\* C14: an event dispatched in a state that has no row for it is a no-op:
\* the state, every field of the tournament, the details object and every
\* balance are unchanged, i.e. a step that changes anything is not the
\* dispatch of an event to a state that does not handle it.
C14_UnhandledEventIsNoOp ==
  [][ \/ UNCHANGED vars
      \/ /\ << state, "player_registered" >> \notin Handled
            => ~ \E payer \in Payers, player \in Accounts :
                   on_player_registered(payer, player)
         /\ << state, "registration_deadline_passed" >> \notin Handled
            => ~ on_registration_deadline_passed
         /\ << state, "start_time_arrived" >> \notin Handled
            => ~ \E seed \in Seeds : on_start_time_arrived(seed)
         /\ << state, "final_game_completed" >> \notin Handled
            => ~ on_final_game_completed ]_vars

\* C14 witness: a tournament in progress, before its registration deadline
\* and with an account that has not joined, is offered every event but
\* final_game_completed
C14_Witness ==
  /\ state = "in_progress"
  /\ \E player \in Accounts : join_allowed(player)
  /\ start_deliverable
  /\ deadline_deliverable
  /\ prize_pool > 0

\* C15: when the debit of the buy-in fails during player_registered, nothing
\* is applied: payers, registered players, the counter, prize_pool, state,
\* start_time and every balance stay as they were.
C15_FailedDebitAppliesNothing ==
  [][ \A payer \in Payers, player \in Accounts :
        ( /\ state = "accepting_registrations"
          /\ balance[payer] < options.buy_in
          /\ on_player_registered(payer, player) )
        => UNCHANGED vars ]_vars

\* C15 witness: the last seat of a tournament is open and the payer who paid
\* for two seats cannot pay for a third
C15_Witness ==
  /\ state = "accepting_registrations"
  /\ registered_players = options.number_of_players - 1
  /\ balance[0] < options.buy_in
  /\ \E player \in Accounts : join_allowed(player)

\* C16: from any running set S a tournament_join_operation of payer P and
\* player Q yields S with P and Q added; a tournament_leave_operation of
\* canceling account C and player Q yields S without Q and, when C differs
\* from Q, without C; a join followed by the leave in which the payer P
\* cancels the registration of Q leaves neither of them in the set.
C16_JoinAddsLeaveRemoves ==
  /\ [](/\ impact.op.which = "tournament_join_operation"
           => impact.result
                = impact.before \cup { impact.op.payer_account_id,
                                       impact.op.player_account_id }
        /\ impact.op.which = "tournament_leave_operation"
           => impact.result
                = { a \in impact.before :
                      /\ a # impact.op.player_account_id
                      /\ a # impact.op.canceling_account_id })
  /\ [][ ( /\ impact.op.which = "tournament_join_operation"
           /\ impact'.op.which = "tournament_leave_operation"
           /\ impact'.op.player_account_id = impact.op.player_account_id
           /\ impact'.op.canceling_account_id = impact.op.payer_account_id )
         => /\ impact.op.payer_account_id \notin impact'.result
            /\ impact.op.player_account_id \notin impact'.result ]_vars

\* C16 witness: the payer 0 cancels the registration of player 1, both were
\* in the running set, account 2 stays
C16_Witness ==
  /\ impact.op = [ which |-> "tournament_leave_operation",
                   canceling_account_id |-> 0, player_account_id |-> 1 ]
  /\ impact.before = { 0, 1, 2 }
  /\ impact.result = { 2 }

\* C17: a tournament_create_operation adds exactly its creator and every
\* account of options.whitelist to the running set; with an empty whitelist
\* it adds the creator alone.
C17_CreateAddsCreatorAndWhitelist ==
  impact.op.which = "tournament_create_operation"
    => /\ impact.result
            = { a \in ImpactAccounts :
                  \/ a \in impact.before
                  \/ a = impact.op.creator
                  \/ a \in impact.op.whitelist }
       /\ impact.op.whitelist = {}
            => impact.result \ impact.before \subseteq { impact.op.creator }

\* C17 witness: account 0 creates a tournament open to the accounts 1 and 2
\* only, none of them was in the running set
C17_Witness ==
  /\ impact.op = [ which |-> "tournament_create_operation", creator |-> 0,
                   whitelist |-> { 1, 2 } ]
  /\ impact.before = {}
  /\ impact.result = { 0, 1, 2 }

\* C18: an account_create_operation adds the registrar, the referrer and
\* every account of the owner and active authorities; a transfer_operation
\* adds its `to` account only; an override_transfer_operation adds `to`,
\* `from` and `issuer`.
C18_CreateTransferOverride ==
  /\ impact.op.which = "account_create_operation"
       => impact.result
            = UNION { impact.before,
                      { impact.op.registrar, impact.op.referrer },
                      impact.op.owner, impact.op.active }
  /\ impact.op.which = "transfer_operation"
       => /\ impact.op.to \in impact.result
          /\ \A a \in impact.result :
               a \in impact.before \/ a = impact.op.to
          /\ impact.before \subseteq impact.result
  /\ impact.op.which = "override_transfer_operation"
       => impact.result
            = impact.before
                \cup { impact.op.to, impact.op.from, impact.op.issuer }

\* C18 witness: a transfer from account 0 to account 1 with only account 2
\* in the running set: the sender is not added
C18_Witness ==
  /\ impact.op = [ which |-> "transfer_operation", from |-> 0, to |-> 1 ]
  /\ impact.before = { 2 }
  /\ impact.result = { 1, 2 }

\* C19: notify_changed_objects dispatches the new, the changed and the
\* removed notification each only if the id set of that category in the
\* head undo state is not empty; a category with an empty id set produces
\* no notification.
C19_DispatchOnlyNonEmpty ==
  \A k \in DOMAIN notify.sent : notify.sent[k].ids # {}

\* C20: when check_for_new_matches_to_start finds round L complete, L below
\* the final round, and round L+1 waiting, the match it modifies for every
\* match m of round L+1 is m itself, and afterwards m.players is the winner
\* of m's left child followed by the winner of m's right child, a child
\* without winner left out; no other match is modified.
C20_ParentsReceiveWinners ==
  [][ LET ms_size == Cardinality(DOMAIN matches)
          rounds == find_msb(ms_size + 1)
          L == last_complete_round(matches)
      IN  ( /\ check_for_new_matches_to_start
            /\ L >= 0
            /\ L < rounds - 1
            /\ \A m \in round_matches(matches, L + 1) :
                 matches[m].state = "waiting_on_previous_matches" )
          => /\ \A m \in round_matches(matches, L + 1) :
                  matches'[m].players
                    = winner_of(matches[left_child_index(ms_size, m)])
                        \o winner_of(matches[right_child_index(ms_size, m)])
             /\ \A m \in DOMAIN matches \ round_matches(matches, L + 1) :
                  matches'[m] = matches[m] ]_vars

\* C21: a call to check_for_new_matches_to_start that finds round L complete
\* changes only matches of round L+1: every match of the rounds 0..L keeps
\* its players, winners and state, and every match of a round above L+1
\* is left without players.
C21_OnlyNextRoundChanges ==
  [][ LET rounds == find_msb(Cardinality(DOMAIN matches) + 1)
          L == last_complete_round(matches)
      IN  ( /\ check_for_new_matches_to_start
            /\ L >= 0
            /\ L < rounds - 1 )
          => /\ \A r \in 0..L : \A m \in round_matches(matches, r) :
                  /\ matches'[m].players = matches[m].players
                  /\ matches'[m].match_winners = matches[m].match_winners
                  /\ matches'[m].state = matches[m].state
             /\ \A r \in (L + 2)..(rounds - 1) :
                  \A m \in round_matches(matches, r) :
                    matches'[m].players = << >> ]_vars

\* the matches that were initiated with players
initiated_matches ==
  { m \in DOMAIN matches : matches[m].state # "waiting_on_previous_matches" }

\* C22 as claimed: in the match array built at start and scanned by the
\* scheduler the first round occupies the indices
\* [num_matches - 2^(R-1), num_matches) and the final is the match at
\* index 0; the matches initiated at start are the scheduler's round 0.
C22_FirstRoundAtHighIndices ==
  matches # << >>
    => LET ms_size == Cardinality(DOMAIN matches)
           R == CeilLog2(options.number_of_players)
       IN  /\ round_matches(matches, 0)
                = (ms_size - Pow(2, R - 1))..(ms_size - 1)
           /\ round_matches(matches, R - 1) = { 0 }
           /\ initiated_matches = round_matches(matches, 0)

\* C22: in the match array built at start and scanned by the scheduler the
\* first round occupies the indices [0, 2^(R-1)) and the final is the match
\* at index num_matches - 1; the matches initiated at start are exactly the
\* ones the scheduler treats as round 0.
C22_FirstRoundAtLowIndices ==
  matches # << >>
    => LET ms_size == Cardinality(DOMAIN matches)
           R == CeilLog2(options.number_of_players)
       IN  /\ round_matches(matches, 0) = 0..(Pow(2, R - 1) - 1)
           /\ round_matches(matches, R - 1) = { ms_size - 1 }
           /\ initiated_matches = 0..(Pow(2, R - 1) - 1)

\* C22 witness: eight players, the four first-round matches 0..3 were
\* initiated and two of them are complete, the matches 4..6 wait
C22_Witness ==
  /\ options.number_of_players = 8
  /\ initiated_matches = 0..3
  /\ Cardinality({ m \in DOMAIN matches :
                     matches[m].state = "match_complete" }) = 2
  /\ round_matches(matches, 2) = { 6 }

\* no round of the matches is complete: the list is empty or a first-round
\* match is not complete
no_round_complete ==
  \/ matches = << >>
  \/ \E m \in 0..(((Cardinality(DOMAIN matches) + 1) \div 2) - 1) :
       matches[m].state # "match_complete"

\* every match, the final included, is complete
final_round_complete ==
  /\ matches # << >>
  /\ \A m \in DOMAIN matches : matches[m].state = "match_complete"

\* C23: check_for_new_matches_to_start modifies no match, no tournament
\* field and no balance when no round is fully complete, the empty match
\* list of a tournament that has not started included, and when the final
\* round is already complete.
C23_NothingToStartChangesNothing ==
  [][ ( /\ check_for_new_matches_to_start
        /\ no_round_complete \/ final_round_complete )
      => UNCHANGED << matches, tournament_vars, balance >> ]_vars

\* C23 witness: a two-player tournament whose only match, the final, was
\* played to its end, so that the scheduler finds the final round complete
C23_Witness ==
  /\ final_round_complete
  /\ Cardinality(DOMAIN matches) = 1
  /\ Len(matches[0].players) = 2
  /\ matches[0].match_winners # {}

one_entry_grows_by_buy_in ==
  \E payer \in Payers :
    /\ DOMAIN payers' = DOMAIN payers \cup { payer }
    /\ payers'[payer] = ( IF payer \in DOMAIN payers THEN payers[payer]
                          ELSE 0 ) + options.buy_in
    /\ \A a \in DOMAIN payers \ { payer } : payers'[a] = payers[a]

\* C25 as claimed: in every reachable state every value stored in
\* details.payers is strictly positive, for every allowed buy_in.amount, and
\* a payer who has paid for k distinct players has the entry
\* k * buy_in.amount.
C25_PayersStrictlyPositive ==
  /\ [](\A a \in DOMAIN payers :
          /\ payers[a] > 0
          /\ \E k \in 1..registered_players :
               payers[a] = k * options.buy_in)
  /\ [][ \/ UNCHANGED vars
         \/ registered_players' = registered_players + 1
              => one_entry_grows_by_buy_in ]_vars

\* C25: in every reachable state every value stored in details.payers is
\* non-negative, and strictly positive when buy_in.amount is positive (with
\* a buy_in.amount of 0 every stored value is 0); every registration adds
\* buy_in.amount to the entry of its payer and changes no other entry, so a
\* payer who has paid for k distinct players has the entry
\* k * buy_in.amount.
C25_PayersMultipleOfBuyIn ==
  /\ [](\A a \in DOMAIN payers :
          /\ payers[a] >= 0
          /\ (payers[a] > 0) <=> (options.buy_in > 0)
          /\ \E k \in 1..registered_players :
               payers[a] = k * options.buy_in)
  /\ [][ \/ UNCHANGED vars
         \/ registered_players' = registered_players + 1
              => one_entry_grows_by_buy_in ]_vars

\* C25 witness: a payer has paid a positive buy-in for two players, and
\* another payer for one
C25_Witness ==
  /\ options.buy_in > 0
  /\ \E a, b \in DOMAIN payers :
       /\ payers[a] = 2 * options.buy_in
       /\ payers[b] = options.buy_in

\* C26: for every N >= 2, once the pairing loop has ended, the first slot
\* paired[2i] of every first-round match i < 2^(R-1) holds a player; a bye
\* can only occupy a second slot paired[2i+1], so that every first-round
\* match is initiated with at least one player, the first of which is the
\* player of its first slot.
C26_FirstSlotHoldsPlayer ==
  LET N == bracket.num_players
      R == CeilLog2(N)
      seeded == bracket_seeding(N)
  IN  bracket.player_num = N
        => /\ \A pos \in bye_slots : pos % 2 = 1
           /\ \A i \in 0..(Pow(2, R - 1) - 1) :
                LET players == first_round_players(bracket.paired, i)
                IN  /\ \E p \in 0..(N - 1) : bracket.paired[2 * i] = seeded[p]
                    /\ Len(players) >= 1
                    /\ players[1] = bracket.paired[2 * i]
                    /\ players[1] # DefaultAccount

\* C26 witness: nine players placed in sixteen slots, the seven byes all in
\* second slots
C26_Witness ==
  /\ bracket.num_players = 9
  /\ bracket.player_num = 9
  /\ bye_slots = { 1, 5, 7, 9, 11, 13, 15 }

\* the first-round matches of the started tournament
first_round_matches ==
  0..(((Cardinality(DOMAIN matches) + 1) \div 2) - 1)

RECURSIVE total_players(_)
total_players(ms) ==
  IF ms = {} THEN 0
  ELSE LET m == CHOOSE x \in ms : TRUE
       IN  Len(matches[m].players) + total_players(ms \ { m })

\* C27: after the transition to in_progress every registered player,
\* whatever its account id, the default account id included, is in the
\* player list of exactly one first-round match, and the first-round matches
\* have number_of_players players in total.
C27_EveryPlayerInOneMatch ==
  state = "in_progress"
    => /\ \A p \in details_players :
            Cardinality({ m \in first_round_matches :
                            \E k \in DOMAIN matches[m].players :
                              matches[m].players[k] = p }) = 1
       /\ total_players(first_round_matches) = options.number_of_players

\* C28: a tournament that has reached awaiting_start never reaches
\* registration_period_expired and no account is credited from then on,
\* even if registration_deadline_passed is delivered afterwards; a balance
\* grows only in the step from accepting_registrations to
\* registration_period_expired.
C28_NoRefundOnceFull ==
  [][ \/ UNCHANGED vars
      \/ /\ state \in { "awaiting_start", "in_progress", "concluded" }
            => /\ state' # "registration_period_expired"
               /\ \A a \in Accounts : balance'[a] <= balance[a]
         /\ (\E a \in Accounts : balance'[a] > balance[a])
            => /\ state = "accepting_registrations"
               /\ state' = "registration_period_expired" ]_vars

\* C28 witness: a full tournament with paid buy-ins that still waits for
\* its start after the registration deadline has passed, so that
\* registration_deadline_passed is delivered to it
C28_Witness ==
  /\ state = "awaiting_start"
  /\ now > options.registration_deadline
  /\ deadline_deliverable
  /\ \E a \in DOMAIN payers : payers[a] > 0 /\ balance[a] < InitialBalance

\* what account a has paid into the tournament
paid_by(a) == IF a \in DOMAIN payers THEN payers[a] ELSE 0

\* C29: in every reachable state and for every account a, the initial
\* balance of a minus its current balance is details.payers[a] (0 when
\* absent) while the state is not registration_period_expired, and 0 once
\* it is; the refund is applied at most once (no balance changes after the
\* expiry), and details.payers and prize_pool keep their values through the
\* refund and after it.
C29_LedgerConservation ==
  /\ [](\A a \in Accounts :
          InitialBalance - balance[a]
            = IF state = "registration_period_expired" THEN 0
              ELSE paid_by(a))
  /\ [][ \/ UNCHANGED vars
         \/ /\ state = "registration_period_expired"
               => UNCHANGED << balance, payers, prize_pool >>
            /\ state' = "registration_period_expired"
               => UNCHANGED << payers, prize_pool >> ]_vars

\* C29 witness: an expired tournament whose one payer had paid two buy-ins,
\* still recorded in payers and prize_pool, and has its balance back
C29_Witness ==
  /\ state = "registration_period_expired"
  /\ DOMAIN payers = { 1 }
  /\ paid_by(1) = 20
  /\ prize_pool = 20
  /\ balance[1] = InitialBalance

\* C30: the scheduler is idempotent: calling check_for_new_matches_to_start
\* again right after a call, no match having changed state or winners in
\* between, leaves every match with the players, winners and state the
\* first call left it with.
C30_SchedulerIdempotent ==
  [][ check_for_new_matches_to_start
      => \A m \in DOMAIN matches' :
           LET again == new_matches_to_start(matches')
           IN  /\ again[m].players = matches'[m].players
               /\ again[m].match_winners = matches'[m].match_winners
               /\ again[m].state = matches'[m].state ]_vars

\* C30 witness: three matches, the first round complete, and the scheduler
\* has been called: a match carries the winners of both first-round matches
C30_Witness ==
  /\ Cardinality(DOMAIN matches) = 3
  /\ matches[0].state = "match_complete"
  /\ matches[1].state = "match_complete"
  /\ \E m \in DOMAIN matches :
       matches[m].players = winner_of(matches[0]) \o winner_of(matches[1])

\* C31: if the host fairly delivers registration_deadline_passed,
\* start_time_arrived and final_game_completed whenever the current state
\* handles them, every tournament eventually reaches concluded or
\* registration_period_expired and stays there forever; the number of
\* player_registered transitions, each of which counts one more registered
\* player, never exceeds number_of_players.
C31_EventuallyTerminal ==
  /\ <>[](state \in { "concluded", "registration_period_expired" })
  /\ [](registered_players <= options.number_of_players)
  /\ [][ \/ UNCHANGED vars
         \/ details_players' # details_players
              => /\ registered_players' = registered_players + 1
                 /\ registered_players' <= options.number_of_players ]_vars

\* C31 witness: a tournament that filled up, with as many paid
\* registrations as it has places, has been started and has concluded
C31_Witness ==
  /\ state = "concluded"
  /\ Cardinality(details_players) = options.number_of_players
  /\ registered_players = options.number_of_players
  /\ matches # << >>

\* the operations other than tournament_leave_operation
OtherThanLeave ==
  { op \in Operations : op.which # "tournament_leave_operation" }

\* C32: an operation other than tournament_leave_operation removes no
\* account from the running set: its result is the set before it united
\* with the accounts the operation impacts on its own, so that visiting it
\* and any second such operation in either order gives the same set; for a
\* tournament_leave_operation there is an operation with which the order
\* matters.
C32_OrderMattersOnlyWithLeave ==
  /\ impact.op \in OtherThanLeave
       => /\ impact.before \subseteq impact.result
          /\ impact.result
               = impact.before \cup get_impacted_account_visitor(impact.op, {})
          /\ \A other \in OtherThanLeave :
               get_impacted_account_visitor(other, impact.result)
                 = get_impacted_account_visitor(
                     impact.op,
                     get_impacted_account_visitor(other, impact.before))
  /\ impact.op.which = "tournament_leave_operation"
       => \E other \in OtherThanLeave :
            get_impacted_account_visitor(other, impact.result)
              # get_impacted_account_visitor(
                  impact.op,
                  get_impacted_account_visitor(other, impact.before))

\* C32 witness: a transfer to account 2 visited with the running set { 0, 1 }
\* keeps both accounts and adds its receiver
C32_Witness ==
  /\ impact.op.which = "transfer_operation"
  /\ impact.op.to = 2
  /\ impact.before = { 0, 1 }
  /\ impact.result = { 0, 1, 2 }

\* the accounts relevant to the objects objs[id], id in ids: their issuers
issuers_of(objs, ids) == { objs[id].issuer : id \in ids }

\* C33: what notify_changed_objects dispatched carries, for the changed
\* category, the accounts of the values the undo journal kept from before
\* the modification; for the new category the ids of the journal and the
\* accounts of the current values of those that are still found; for the
\* removed category the values the journal holds for the removed objects
\* and their accounts; nothing is dispatched when the undo journal is
\* disabled.
C33_DispatchedValues ==
  notify.called
    => /\ ~notify.enabled => notify.sent = << >>
       /\ \A k \in DOMAIN notify.sent :
            LET s == notify.sent[k]
                head == notify.head
            IN  /\ s.signal = "changed_objects"
                     => /\ s.ids = DOMAIN head.old_values
                        /\ s.accounts
                             = issuers_of(head.old_values,
                                          DOMAIN head.old_values)
                /\ s.signal = "new_objects"
                     => /\ s.ids = head.new_ids
                        /\ s.accounts
                             = issuers_of(notify.objects,
                                          head.new_ids
                                            \cap DOMAIN notify.objects)
                /\ s.signal = "removed_objects"
                     => /\ s.ids = DOMAIN head.removed
                        /\ s.removed = head.removed
                        /\ s.accounts
                             = issuers_of(head.removed, DOMAIN head.removed)

\* C33 witness: object 0 was modified from issuer 0 to issuer 1, and the
\* changed notification names the issuer it had before
C33_Witness ==
  /\ notify.called
  /\ 0 \in DOMAIN notify.objects
  /\ notify.objects[0].issuer = 1
  /\ \E k \in DOMAIN notify.sent :
       /\ notify.sent[k].signal = "changed_objects"
       /\ notify.sent[k].ids = { 0 }
       /\ notify.sent[k].accounts = { 0 }

\* the members of the original tournament_object and its current state
original_members == << state, start_time, prize_pool, registered_players >>

\* C34: copy-constructing or assigning a tournament yields an object with
\* the same members and the same state whose state machine is bound to the
\* copy: an event dispatched on the copy changes registered_players,
\* prize_pool, start_time and state of the copy only and leaves the
\* original unchanged, and an event dispatched on the original leaves the
\* copy unchanged.
C34_CopyIsIndependent ==
  [][ /\ (construct_copy \/ assign_copy)
         => /\ copy'.state = state
            /\ copy'.start_time = start_time
            /\ copy'.prize_pool = prize_pool
            /\ copy'.registered_players = registered_players
            /\ UNCHANGED original_members
      /\ ( \/ \E player \in Accounts : copy_on_player_registered(0, player)
           \/ copy_on_registration_deadline_passed
           \/ copy_on_start_time_arrived(0)
           \/ copy_on_final_game_completed )
         => UNCHANGED original_members
      /\ ( \/ \E player \in Accounts : on_player_registered(0, player)
           \/ on_registration_deadline_passed
           \/ on_start_time_arrived(0)
           \/ on_final_game_completed )
         => UNCHANGED copy ]_vars

\* C34 witness: the copy, made when one player had registered, has since
\* taken the last registration and started, while the original still
\* accepts registrations with one player and one buy-in
C34_Witness ==
  /\ copy.made
  /\ copy.state = "in_progress"
  /\ copy.registered_players = options.number_of_players
  /\ copy.prize_pool > prize_pool
  /\ state = "accepting_registrations"
  /\ registered_players = 1
  /\ start_time = NoTime

====
